---------------------------- MODULE Spec2Model ----------------------------
(***************************************************************************)
(* Stock price tracker: the USD->NPR rate fetcher (tracker.py), the        *)
(* history fetch and the plot entry point (tracker.py) and the Tk          *)
(* application that drives them (main.py).                                 *)
(*                                                                         *)
(* Text is a sequence of one-character strings.  A float is a record       *)
(* [nan, n]: n counts hundredths, so 132.5 is 13250; every number the      *)
(* model feeds in has at most two fractional digits, where hundredths are  *)
(* exact.  nan is Python's float("nan").                                   *)
(***************************************************************************)
EXTENDS Integers, Sequences, FiniteSets, TLC

\* ------------------------------------------------------------------------
\* Bounds of the model
\* ------------------------------------------------------------------------
MaxCalls == 2      \* direct calls of tracker functions by a library client
MaxClicks == 2     \* accepted or rejected clicks on the Fetch button
MaxPieces == 3     \* pieces of text in Stock_Symbols.txt

\* ------------------------------------------------------------------------
\* Floats and their text: str(float) and float(str)
\* ------------------------------------------------------------------------
Scale == 10 * 10    \* hundredths

FNum(n) == [nan |-> FALSE, n |-> n]
FNan == [nan |-> TRUE, n |-> 0]

Positive(f) == ~f.nan /\ f.n > 0

DigitChars == <<"0", "1", "2", "3", "4", "5", "6", "7", "8", "9">>

IsDigit(c) == \E i \in 1..Len(DigitChars) : DigitChars[i] = c

DigitVal(c) == (CHOOSE i \in 1..Len(DigitChars) : DigitChars[i] = c) - 1

IsSpace(c) == c \in {" ", "\n", "\t"}

RECURSIVE LStrip(_)
LStrip(s) == IF s # <<>> /\ IsSpace(Head(s)) THEN LStrip(Tail(s)) ELSE s

RECURSIVE RStrip(_)
RStrip(s) ==
    IF s # <<>> /\ IsSpace(s[Len(s)]) THEN RStrip(SubSeq(s, 1, Len(s) - 1)) ELSE s

\* str.strip()
Strip(s) == RStrip(LStrip(s))

AllDigits(s) == \A i \in 1..Len(s) : IsDigit(s[i])

RECURSIVE DigitsVal(_)
DigitsVal(s) ==
    IF s = <<>> THEN 0 ELSE DigitsVal(SubSeq(s, 1, Len(s) - 1)) * 10 + DigitVal(s[Len(s)])

RECURSIVE NatText(_)
NatText(n) ==
    IF n < 10 THEN <<DigitChars[n + 1]>>
    ELSE NatText(n \div 10) \o <<DigitChars[(n % 10) + 1]>>

\* The fractional digits of a decimal literal, as hundredths.
FracVal(s) ==
    IF Len(s) = 0 THEN 0
    ELSE IF Len(s) = 1 THEN DigitVal(s[1]) * 10
    ELSE DigitVal(s[1]) * 10 + DigitVal(s[2])

DotAt(s) == IF \E i \in 1..Len(s) : s[i] = "."
            THEN CHOOSE i \in 1..Len(s) : s[i] = "." /\ \A j \in 1..(i - 1) : s[j] # "."
            ELSE 0

\* float(text): [ok, f]; ok = FALSE is ValueError.  Surrounding whitespace is
\* ignored, a sign is optional, then "nan" or digits with at most one point
\* and at least one digit.
ParseFloat(text) ==
    LET t == Strip(text)
        signed == t # <<>> /\ Head(t) \in {"-", "+"}
        neg == t # <<>> /\ Head(t) = "-"
        body == IF signed THEN Tail(t) ELSE t
        dot == DotAt(body)
        ip == IF dot = 0 THEN body ELSE SubSeq(body, 1, dot - 1)
        fp == IF dot = 0 THEN <<>> ELSE SubSeq(body, dot + 1, Len(body))
        mag == DigitsVal(ip) * Scale + FracVal(fp)
    IN  IF body = <<"n", "a", "n">> THEN [ok |-> TRUE, f |-> FNan]
        ELSE IF AllDigits(ip) /\ AllDigits(fp) /\ Len(ip) + Len(fp) > 0
             THEN [ok |-> TRUE, f |-> FNum(IF neg THEN 0 - mag ELSE mag)]
             ELSE [ok |-> FALSE, f |-> FNan]

\* A conversion that drops the fraction, as str(int(rate)) would
FormatFloatWhole(f) ==
    IF f.nan THEN <<"n", "a", "n">>
    ELSE (IF f.n < 0 THEN <<"-">> ELSE <<>>)
         \o NatText((IF f.n < 0 THEN 0 - f.n ELSE f.n) \div Scale)

\* str(rate) of a float: at least one fractional digit, no trailing zeros.
FormatFloat(f) ==
    IF f.nan THEN <<"n", "a", "n">>
    ELSE LET mag == IF f.n < 0 THEN 0 - f.n ELSE f.n
             fr == mag % Scale
             frText == IF fr % 10 = 0 THEN <<DigitChars[(fr \div 10) + 1]>>
                       ELSE <<DigitChars[(fr \div 10) + 1], DigitChars[(fr % 10) + 1]>>
         IN  (IF f.n < 0 THEN <<"-">> ELSE <<>>) \o NatText(mag \div Scale) \o <<".">> \o frText

\* ------------------------------------------------------------------------
\* JSON values found in a provider's response
\* ------------------------------------------------------------------------
JNull == [t |-> "null", n |-> 0, s |-> <<>>]
JNum(n) == [t |-> "num", n |-> n, s |-> <<>>]
JStr(s) == [t |-> "str", n |-> 0, s |-> s]

\* Python truth value, as tested by `if rate:`
Truthy(v) ==
    CASE v.t = "null" -> FALSE
      [] v.t = "num" -> v.n # 0
      [] v.t = "str" -> v.s # <<>>

\* float(rate): [ok, f]; ok = FALSE is ValueError or TypeError
ToFloat(v) ==
    CASE v.t = "null" -> [ok |-> FALSE, f |-> FNan]
      [] v.t = "num" -> [ok |-> TRUE, f |-> FNum(v.n)]
      [] v.t = "str" -> ParseFloat(v.s)

\* ------------------------------------------------------------------------
\* Provider responses
\* ------------------------------------------------------------------------
\* net: requests.get returned ("ok") or raised ("err"); status: what
\* raise_for_status does ("err" raises); json: resp.json() raises ("bad"),
\* gives a list ("arr") or an object ("obj") of the form {okey: oval} with
\* oval null ("null") or the object {ikey: val}; okey = "" is the object {}
\* and ikey = "" the inner object {}.
Resp(net, status, json, okey, oval, ikey, val) ==
    [net |-> net, status |-> status, json |-> json, okey |-> okey, oval |-> oval,
     ikey |-> ikey, val |-> val]

Doc(okey, ikey, val) == Resp("ok", "ok", "obj", okey, "obj", ikey, val)

RateValues ==
    { JNull, JNum(0), JNum(-100), JNum(13250), JNum(13100),
      JStr(<<>>), JStr(<<"0">>), JStr(<<"-", "1">>), JStr(<<"a", "b", "c">>),
      JStr(<<"1", "3", "2", ".", "5">>), JStr(<<"n", "a", "n">>) }

Responses ==
    { Resp("err", "ok", "bad", "", "null", "", JNull),
      Resp("ok", "err", "bad", "", "null", "", JNull),
      Resp("ok", "err", "obj", "info", "obj", "rate", JNum(13250)),
      Resp("ok", "ok", "bad", "", "null", "", JNull),
      Resp("ok", "ok", "arr", "", "null", "", JNull),
      Resp("ok", "ok", "obj", "", "null", "", JNull),
      Resp("ok", "ok", "obj", "info", "null", "", JNull),
      Resp("ok", "ok", "obj", "rates", "null", "", JNull),
      Doc("info", "", JNull), Doc("rates", "", JNull) }
    \cup { Doc("info", "rate", v) : v \in RateValues }
    \cup { Doc("rates", "NPR", v) : v \in RateValues }

\* The responses tried when the fetcher is called by plot_stock_data
PlotResponses ==
    { Resp("err", "ok", "bad", "", "null", "", JNull),
      Doc("info", "rate", JNum(13250)),
      Doc("rates", "NPR", JNum(13250)),
      Doc("rates", "NPR", JNum(-100)) }

ResponsesOf(owner) == IF owner = "plot" THEN PlotResponses ELSE Responses

NumProviders == 3

\* The keys each provider's block looks up: data.get(okey, {}).get(ikey)
OuterKey(k) == IF k = 1 THEN "info" ELSE "rates"
InnerKey(k) == IF k = 1 THEN "rate" ELSE "NPR"

\* data.get(okey, {}).get(ikey): [raised, v]; raised is AttributeError
Extract(resp, okey, ikey) ==
    IF resp.json = "arr" THEN [raised |-> TRUE, v |-> JNull]
    ELSE IF resp.okey # okey THEN [raised |-> FALSE, v |-> JNull]
    ELSE IF resp.oval = "null" THEN [raised |-> TRUE, v |-> JNull]
    ELSE IF resp.ikey # ikey THEN [raised |-> FALSE, v |-> JNull]
    ELSE [raised |-> FALSE, v |-> resp.val]

\* ------------------------------------------------------------------------
\* The rate cache file last_npr_rate.txt
\* ------------------------------------------------------------------------
File(exists, readable, txt) == [exists |-> exists, readable |-> readable, txt |-> txt]

NoFile == File(FALSE, FALSE, <<>>)

CacheTexts ==
    { <<>>, <<" ">>, <<"a", "b", "c">>, <<"1", "2", "9", ".", "2", "5">>,
      <<"1", "2", "9", ".", "2", "5", "\n">>, <<"0">>, <<"-", "5">> }

InitialCacheFiles ==
    { NoFile, File(TRUE, FALSE, <<"1", "2", "9", ".", "2", "5">>) }
    \cup { File(TRUE, TRUE, t) : t \in CacheTexts }

\* Outcome of a block of get_usd_to_npr_rate: it returns (rate, "live" or
\* "cache"), falls through to the next block, or raises.
Outcome(kind, rate, file, wrote) ==
    [kind |-> kind, rate |-> rate, file |-> file, wrote |-> wrote]

\* try: Path(cache_file).write_text(str(rate)) except Exception: debug(...)
\* ok = FALSE is a write that raises; the file is then left as it was.
WriteCache(file, rate, ok) ==
    IF ok THEN File(TRUE, file.exists => file.readable, FormatFloat(rate)) ELSE file

\* The body of one provider's try block
ProviderTry(k, resp, wr, file) ==
    IF resp.net = "err" \/ resp.status = "err" \/ resp.json = "bad"
    THEN Outcome("raise", FNan, file, <<>>)
    ELSE LET g == Extract(resp, OuterKey(k), InnerKey(k))
         IN  IF g.raised THEN Outcome("raise", FNan, file, <<>>)
             ELSE IF ~Truthy(g.v) THEN Outcome("fall", FNan, file, <<>>)
             ELSE LET fl == ToFloat(g.v)
                  IN  IF ~fl.ok THEN Outcome("raise", FNan, file, <<>>)
                      ELSE Outcome("return", fl.f, WriteCache(file, fl.f, wr),
                                   <<[txt |-> FormatFloat(fl.f), ok |-> wr]>>)

\* A handler that lets the exception through
CatchNothing(out) == out

\* except Exception: logger.exception(...) -- the block's handler
Catch(out) == IF out.kind = "raise" THEN [out EXCEPT !.kind = "fall"] ELSE out

ProviderBlock(k, resp, wr, file) == Catch(ProviderTry(k, resp, wr, file))

\* The body of the cache block's try
CacheTry(file) ==
    IF ~file.exists THEN Outcome("fall", FNan, file, <<>>)
    ELSE IF ~file.readable THEN Outcome("raise", FNan, file, <<>>)
    ELSE LET txt == Strip(file.txt)
         IN  IF txt = <<>> THEN Outcome("fall", FNan, file, <<>>)
             ELSE LET fl == ParseFloat(txt)
                  IN  IF ~fl.ok THEN Outcome("raise", FNan, file, <<>>)
                      ELSE Outcome("return", fl.f, file, <<>>)

DefaultRate == 14000

\* A cache block that stores the default rate in the file when it falls
\* through to it
CacheBlockStoresDefault(file) ==
    LET out == Catch(CacheTry(file))
    IN  IF out.kind = "fall"
        THEN Outcome("fall", FNan, WriteCache(file, FNum(DefaultRate), TRUE),
                     <<[txt |-> FormatFloat(FNum(DefaultRate)), ok |-> TRUE]>>)
        ELSE out

CacheBlock(file) == Catch(CacheTry(file))

\* The cache files tried when the Tk application runs
AppCacheFiles == { NoFile, File(TRUE, TRUE, <<"1", "2", "9", ".", "2", "5">>) }

\* ------------------------------------------------------------------------
\* fetch_stock_data
\* ------------------------------------------------------------------------
LowerChars == <<"a", "b", "c", "d", "e", "f", "g", "h", "i", "j", "k", "l", "m",
                "n", "o", "p", "q", "r", "s", "t", "u", "v", "w", "x", "y", "z">>
UpperChars == <<"A", "B", "C", "D", "E", "F", "G", "H", "I", "J", "K", "L", "M",
                "N", "O", "P", "Q", "R", "S", "T", "U", "V", "W", "X", "Y", "Z">>

UpperChar(c) ==
    IF \E i \in 1..Len(LowerChars) : LowerChars[i] = c
    THEN UpperChars[CHOOSE i \in 1..Len(LowerChars) : LowerChars[i] = c]
    ELSE c

\* str.upper()
Upper(s) == [i \in 1..Len(s) |-> UpperChar(s[i])]

\* What stock.history(period=period) does: it raises, or gives None, an empty
\* frame or a frame; a frame is its Close column, in whole USD.
Hist(kind, frame) == [kind |-> kind, frame |-> frame]

Frames == { <<100, 101, 99>>, <<50>> }

HistoryOutcomes ==
    { Hist("raise", <<>>), Hist("none", <<>>), Hist("empty", <<>>) }
    \cup { Hist("frame", f) : f \in Frames }

\* The outcomes tried when the Tk application runs
AppHistoryOutcomes ==
    { Hist("raise", <<>>), Hist("empty", <<>>), Hist("frame", <<100, 101, 99>>) }

\* stock_data.csv
NoCsv == [exists |-> FALSE, frame |-> <<>>]

\* The result of fetch_stock_data: out is "returned" or "raised"; contacted
\* tells whether the market-data provider was called; csv is stock_data.csv
\* afterwards and csvTried whether data.to_csv was called.
FetchResult(out, err, frame, contacted, csvTried, csv) ==
    [out |-> out, err |-> err, frame |-> frame, contacted |-> contacted,
     csvTried |-> csvTried, csv |-> csv]

NoResult == FetchResult("none", "none", <<>>, FALSE, FALSE, NoCsv)

\* A fetch that lets the failure of data.to_csv reach the caller
FetchStockDataCsvRaises(symbol, hist, csvOk, csv) ==
    IF symbol = <<>> THEN FetchResult("raised", "invalid", <<>>, FALSE, FALSE, csv)
    ELSE IF hist.kind = "raise" THEN FetchResult("raised", "provider", <<>>, TRUE, FALSE, csv)
    ELSE IF hist.kind = "none" \/ hist.frame = <<>>
         THEN FetchResult("raised", "nodata", <<>>, TRUE, FALSE, csv)
    ELSE IF ~csvOk THEN FetchResult("raised", "csv", <<>>, TRUE, TRUE, csv)
    ELSE FetchResult("returned", "none", hist.frame, TRUE, TRUE,
                     [exists |-> TRUE, frame |-> hist.frame])

FetchStockData(symbol, hist, csvOk, csv) ==
    IF symbol = <<>> THEN FetchResult("raised", "invalid", <<>>, FALSE, FALSE, csv)
    ELSE IF hist.kind = "raise" THEN FetchResult("raised", "provider", <<>>, TRUE, FALSE, csv)
    ELSE IF hist.kind = "none" \/ hist.frame = <<>>
         THEN FetchResult("raised", "nodata", <<>>, TRUE, FALSE, csv)
    ELSE FetchResult("returned", "none", hist.frame, TRUE, TRUE,
                     IF csvOk THEN [exists |-> TRUE, frame |-> hist.frame] ELSE csv)

\* ------------------------------------------------------------------------
\* plot_stock_data
\* ------------------------------------------------------------------------
\* data["Close"] * rate, in hundredths of a rupee
Mul(c, f) == IF f.nan THEN FNan ELSE FNum(c * f.n)

Convert(frame, rate) == [i \in 1..Len(frame) |-> Mul(frame[i], rate)]

\* The price line drawn by ax.plot(data.index, close_npr, label=...)
Line(symbol, series) == [symbol |-> symbol, series |-> series]

RenderOutcomes == {"ok", "raise_early", "raise_late"}

\* ------------------------------------------------------------------------
\* load_symbols
\* ------------------------------------------------------------------------
\* The characters of the class [A-Z0-9\-\^], in code point order
SymbolChars ==
    <<
    "-", "0", "1", "2", "3", "4", "5", "6", "7", "8", "9", "A", "B", "C",
    "D", "E", "F", "G", "H", "I", "J", "K", "L", "M", "N", "O", "P", "Q",
    "R", "S", "T", "U", "V", "W", "X", "Y", "Z", "^" >>

IsSymbolChar(c) == \E i \in 1..Len(SymbolChars) : SymbolChars[i] = c

Ord(c) == CHOOSE i \in 1..Len(SymbolChars) : SymbolChars[i] = c

\* s < t, as Python compares two str made of symbol characters
RECURSIVE StrLess(_, _)
StrLess(s, t) ==
    IF t = <<>> THEN FALSE
    ELSE IF s = <<>> THEN TRUE
    ELSE IF s[1] = t[1] THEN StrLess(Tail(s), Tail(t))
    ELSE Ord(s[1]) < Ord(t[1])

\* sorted(S) of a set of str
RECURSIVE Sorted(_)
Sorted(S) ==
    IF S = {} THEN <<>>
    ELSE LET m == CHOOSE x \in S : \A y \in S \ {x} : StrLess(x, y)
         IN  <<m>> \o Sorted(S \ {m})

\* sorted(set(symbols))
SortedSet(matches) == Sorted({ matches[j] : j \in 1..Len(matches) })

\* The length of the run of symbol characters of txt that starts at i
RECURSIVE RunLen(_, _)
RunLen(txt, i) ==
    IF i <= Len(txt) /\ IsSymbolChar(txt[i]) THEN 1 + RunLen(txt, i + 1) ELSE 0

Stars(txt, i) == i + 1 <= Len(txt) /\ txt[i] = "*" /\ txt[i + 1] = "*"

\* \*\*([A-Z0-9\-\^]+)\*\* matches at i: the class has no "*", so the group is
\* the whole run of symbol characters after the two stars
MatchAt(txt, i) ==
    LET n == RunLen(txt, i + 2)
    IN  Stars(txt, i) /\ n > 0 /\ Stars(txt, i + 2 + n)

\* re.findall from position i on: the groups of the leftmost matches that do
\* not overlap
RECURSIVE FindAll(_, _)
FindAll(txt, i) ==
    IF i > Len(txt) THEN <<>>
    ELSE IF MatchAt(txt, i)
         THEN LET n == RunLen(txt, i + 2)
              IN  <<SubSeq(txt, i + 2, i + 1 + n)>> \o FindAll(txt, i + n + 4)
         ELSE FindAll(txt, i + 1)

Fallback ==
    << <<"A", "A", "P", "L">>, <<"M", "S", "F", "T">>, <<"G", "O", "O", "G", "L">>,
       <<"A", "M", "Z", "N">>, <<"T", "S", "L", "A">> >>

\* What load_symbols gives: out is "returned" or "raised"
Loaded(out, list) == [out |-> out, list |-> list]

NotLoaded == Loaded("none", <<>>)

\* load_symbols(file_path) on the file at that path; read_text raises for a
\* file that cannot be read or decoded
LoadSymbols(file) ==
    IF file.exists /\ ~file.readable THEN Loaded("raised", <<>>)
    ELSE LET found == IF file.exists THEN FindAll(file.txt, 1) ELSE <<>>
         IN  Loaded("returned", SortedSet(IF found = <<>> THEN Fallback ELSE found))

\* Stock_Symbols.txt as tried: pieces of text put one after the other
Pieces ==
    { <<"*", "*", "A", "*", "*">>, <<"*", "*", "B", "-", "*", "*">>,
      <<"*", "*", "a", "*", "*">>, <<"*", "*", "^", "1", "*", "*">>,
      <<" ">>, <<"*", "*">>, <<"B", "-">> }

RECURSIVE Flatten(_)
Flatten(ps) == IF ps = <<>> THEN <<>> ELSE Head(ps) \o Flatten(Tail(ps))

\* "foo **AAPL** bar **MSFT** **aapl** **GOOG-X**"
MarkdownText ==
    <<
    "f", "o", "o", " ", "*", "*", "A", "A", "P", "L", "*", "*", " ", "b",
    "a", "r", " ", "*", "*", "M", "S", "F", "T", "*", "*", " ", "*", "*",
    "a", "a", "p", "l", "*", "*", " ", "*", "*", "G", "O", "O", "G", "-",
    "X", "*", "*" >>

SymbolFiles ==
    { NoFile, File(TRUE, FALSE, <<>>), File(TRUE, TRUE, MarkdownText) }
    \cup { File(TRUE, TRUE, Flatten(ps)) :
             ps \in UNION { [1..n -> Pieces] : n \in 0..MaxPieces } }

\* ------------------------------------------------------------------------
\* State
\* ------------------------------------------------------------------------
VARIABLES
    program,     \* "app": main.py runs the Tk application; "lib": a client
                 \* imports tracker and calls its functions directly
    cacheFile,   \* last_npr_rate.txt
    csvFile,     \* stock_data.csv
    rf,          \* the invocation of get_usd_to_npr_rate of each invoker
    pl,          \* the call of plot_stock_data on the main thread
    liveRates,   \* the rates returned as live so far
    progWrote,   \* last_npr_rate.txt was written by get_usd_to_npr_rate
    calls,       \* direct calls made by the library client
    lib,         \* the library client's last call of fetch_stock_data
    btn,         \* fetch_btn's state: "normal" or "disabled"
    status,      \* status_var
    req,         \* the worker thread of each accepted click
    afterQ,      \* callbacks posted with self.after(0, ...), oldest first
    ui,          \* what the Tk main thread is doing
    plot_ax,     \* self.plot_ax and the lines on those axes
    canvas,      \* self.canvas and the lines it last drew
    clicks,      \* clicks on the Fetch button so far
    symbolsFile, \* Stock_Symbols.txt
    symbols,     \* what load_symbols gave, for the combobox or a client
    inv          \* get_usd_to_npr_rate in each of two processes, one file
                 \* operation per step

vars == <<program, cacheFile, csvFile, rf, pl, liveRates, progWrote, calls, lib,
          btn, status, req, afterQ, ui, plot_ax, canvas, clicks,
          symbolsFile, symbols, inv>>

appVars == <<btn, status, req, afterQ, ui, plot_ax, canvas, clicks>>

\* The threads that can run get_usd_to_npr_rate: the main thread of the process
Invokers == {"main"}

Requests == 1..MaxClicks

\* How the response of provider k compares with what counts as a success: HTTP
\* 2xx, a parseable body and a positive finite number at the documented path.
\* "nonpos": a number or numeric text that is zero or negative.
SpecClass(k, resp) ==
    IF resp.net = "err" \/ resp.status = "err" \/ resp.json # "obj" THEN "bad"
    ELSE IF resp.okey # OuterKey(k) \/ resp.oval # "obj" \/ resp.ikey # InnerKey(k) THEN "bad"
    ELSE LET fl == ToFloat(resp.val)
         IN  IF ~fl.ok \/ fl.f.nan THEN "bad"
             ELSE IF fl.f.n > 0 THEN "ok" ELSE "nonpos"

\* ------------------------------------------------------------------------
\* get_usd_to_npr_rate, one block per step
\* ------------------------------------------------------------------------
RfIdle ==
    [pc |-> "idle", k |-> 0, queried |-> <<>>, obs |-> <<>>, cacheReads |-> 0,
     writes |-> <<>>, rate |-> FNan, source |-> "none", raised |-> FALSE,
     fileAtCall |-> NoFile, owner |-> 0]

\* Entry of get_usd_to_npr_rate, called for request `owner` (0: a direct call)
RfEnter(file, owner) ==
    [RfIdle EXCEPT !.pc = "get", !.k = 1, !.fileAtCall = file, !.owner = owner]

\* A cascade that goes on to the next provider after a success
AfterProviderNoStop(k, kind) ==
    IF k < NumProviders THEN [pc |-> "get", k |-> k + 1] ELSE [pc |-> "cache", k |-> 0]

\* Where control goes after provider k's block
AfterProvider(k, kind) ==
    IF kind = "return" THEN [pc |-> "done", k |-> 0]
    ELSE IF k < NumProviders THEN [pc |-> "get", k |-> k + 1]
    ELSE [pc |-> "cache", k |-> 0]

\* One provider block: the GET, the parse and, on success, the cache write
\* and the return
ProviderStep(i) ==
    /\ rf[i].pc = "get"
    /\ \E resp \in ResponsesOf(IF pl.pc = "rate" THEN "plot" ELSE "direct"), wr \in BOOLEAN :
          LET k == rf[i].k
              out == ProviderBlock(k, resp, wr, cacheFile)
              nxt == AfterProvider(k, out.kind)
          IN  /\ cacheFile' = out.file
              /\ rf' = [rf EXCEPT ![i] =
                          [@ EXCEPT !.queried = Append(@, k),
                                    !.obs = Append(@, SpecClass(k, resp)),
                                    !.writes = @ \o out.wrote,
                                    !.pc = IF out.kind = "raise" THEN "done" ELSE nxt.pc,
                                    !.k = IF out.kind = "raise" THEN 0 ELSE nxt.k,
                                    !.raised = (out.kind = "raise"),
                                    !.rate = IF out.kind = "return" THEN out.rate ELSE FNan,
                                    !.source = IF out.kind = "return" THEN "live" ELSE "none"]]
              /\ liveRates' = IF out.kind = "return" THEN liveRates \cup {out.rate}
                              ELSE liveRates
              /\ progWrote' = (progWrote \/ \E j \in 1..Len(out.wrote) : out.wrote[j].ok)
    /\ req' = IF rf[i].owner = 0 THEN req ELSE [req EXCEPT ![rf[i].owner].rateIo = TRUE]
    /\ UNCHANGED <<symbolsFile, symbols, inv>>
    /\ UNCHANGED <<program, csvFile, pl, calls, lib, btn, status, afterQ, ui, plot_ax,
                   canvas, clicks>>

\* The cache block and the final fallback
CacheStep(i) ==
    /\ rf[i].pc = "cache"
    /\ LET out == CacheBlock(cacheFile)
       IN  /\ cacheFile' = out.file
           /\ progWrote' = (progWrote \/ \E j \in 1..Len(out.wrote) : out.wrote[j].ok)
           /\ rf' = [rf EXCEPT ![i] =
                    [@ EXCEPT !.cacheReads = @ + 1,
                              !.writes = @ \o out.wrote,
                              !.pc = "done",
                              !.raised = (out.kind = "raise"),
                              !.rate = CASE out.kind = "return" -> out.rate
                                         [] out.kind = "fall" -> FNum(DefaultRate)
                                         [] OTHER -> FNan,
                              !.source = CASE out.kind = "return" -> "cache"
                                           [] out.kind = "fall" -> "default"
                                           [] OTHER -> "none"]]
    /\ req' = IF rf[i].owner = 0 THEN req ELSE [req EXCEPT ![rf[i].owner].rateIo = TRUE]
    /\ UNCHANGED <<symbolsFile, symbols, inv>>
    /\ UNCHANGED <<program, csvFile, pl, liveRates, calls, lib,
                   btn, status, afterQ, ui, plot_ax, canvas, clicks>>

\* ------------------------------------------------------------------------
\* get_usd_to_npr_rate in two processes that share last_npr_rate.txt, one
\* request or file operation per step
\* ------------------------------------------------------------------------
Processes == {"p1", "p2"}

\* The responses tried when two processes run the fetcher
SharedResponses ==
    { Resp("err", "ok", "bad", "", "null", "", JNull),
      Doc("info", "rate", JNum(13250)),
      Doc("rates", "NPR", JNum(13100)) }

\* seen: the states of the file since the call began
InvIdle ==
    [pc |-> "idle", k |-> 0, rate |-> FNan, source |-> "none", seen |-> {}]

Active(v) == v.pc \notin {"idle", "done"}

\* The file as it is after a step, noted by every call that is under way
Note(f, file) == [i \in Processes |->
                    IF Active(f[i]) THEN [f[i] EXCEPT !.seen = @ \cup {file}] ELSE f[i]]

\* A call of tracker.get_usd_to_npr_rate() in process i
SharedCall(i) ==
    /\ program = "lib"
    /\ calls < MaxCalls
    /\ ~Active(inv[i])
    /\ calls' = calls + 1
    /\ inv' = [inv EXCEPT ![i] = [InvIdle EXCEPT !.pc = "get", !.k = 1,
                                                 !.seen = {cacheFile}]]
    /\ UNCHANGED <<symbolsFile, symbols, program, cacheFile, csvFile, rf, pl,
                   liveRates, progWrote, lib, appVars>>

\* requests.get, raise_for_status, resp.json(), the lookup and float(rate)
\* of provider k; a write_text whose open fails leaves the file alone
SharedGet(i) ==
    /\ inv[i].pc = "get"
    /\ \E resp \in SharedResponses, wr \in BOOLEAN :
          LET k == inv[i].k
              out == ProviderBlock(k, resp, wr, cacheFile)
              nxt == AfterProvider(k, out.kind)
          IN  inv' = [inv EXCEPT ![i] =
                        IF out.kind = "return"
                        THEN [@ EXCEPT !.pc = IF wr THEN "open" ELSE "return",
                                       !.k = 0, !.rate = out.rate]
                        ELSE [@ EXCEPT !.pc = nxt.pc, !.k = nxt.k]]
    /\ UNCHANGED <<symbolsFile, symbols, program, cacheFile, csvFile, rf, pl,
                   liveRates, progWrote, calls, lib, appVars>>

\* write_text opens the file with mode "w", which empties it
SharedOpen(i) ==
    /\ inv[i].pc = "open"
    /\ cacheFile' = File(TRUE, cacheFile.exists => cacheFile.readable, <<>>)
    /\ progWrote' = TRUE
    /\ inv' = Note([inv EXCEPT ![i].pc = "write"], cacheFile')
    /\ UNCHANGED <<symbolsFile, symbols, program, csvFile, rf, pl, liveRates,
                   calls, lib, appVars>>

\* write_text writes str(rate) and closes the file
SharedWrite(i) ==
    /\ inv[i].pc = "write"
    /\ cacheFile' = WriteCache(cacheFile, inv[i].rate, TRUE)
    /\ inv' = Note([inv EXCEPT ![i].pc = "return"], cacheFile')
    /\ UNCHANGED <<symbolsFile, symbols, program, csvFile, rf, pl, liveRates,
                   progWrote, calls, lib, appVars>>

\* return rate, "live"
SharedReturn(i) ==
    /\ inv[i].pc = "return"
    /\ inv' = [inv EXCEPT ![i] = [@ EXCEPT !.pc = "done", !.source = "live"]]
    /\ liveRates' = liveRates \cup {inv[i].rate}
    /\ UNCHANGED <<symbolsFile, symbols, program, cacheFile, csvFile, rf, pl,
                   progWrote, calls, lib, appVars>>

\* The cache block, which reads the file at once, and the final fallback
SharedCache(i) ==
    /\ inv[i].pc = "cache"
    /\ LET out == CacheBlock(cacheFile)
       IN  inv' = [inv EXCEPT ![i] =
                     [@ EXCEPT !.pc = "done",
                               !.rate = IF out.kind = "return" THEN out.rate
                                        ELSE FNum(DefaultRate),
                               !.source = IF out.kind = "return" THEN "cache"
                                          ELSE "default"]]
    /\ UNCHANGED <<symbolsFile, symbols, program, cacheFile, csvFile, rf, pl,
                   liveRates, progWrote, calls, lib, appVars>>

\* ------------------------------------------------------------------------
\* plot_stock_data, up to and after its call of get_usd_to_npr_rate
\* ------------------------------------------------------------------------
PlIdle ==
    [pc |-> "idle", symbol |-> <<>>, frame |-> <<>>, owner |-> 0, rateCalls |-> 0,
     out |-> "none", rate |-> FNan, source |-> "none", lines |-> <<>>]

\* An entry that fetches the rate before looking at the frame
PlotEnterNoCheck(frame, symbol, owner, lines) ==
    [PlIdle EXCEPT !.pc = "rate", !.symbol = symbol, !.frame = frame,
                   !.owner = owner, !.rateCalls = 1, !.lines = lines]

\* Entry: the empty-frame check, then the call of get_usd_to_npr_rate.
\* `lines` are the lines already on the axes passed in.
PlotEnter(frame, symbol, owner, lines) ==
    IF frame = <<>>
    THEN [PlIdle EXCEPT !.pc = "done", !.symbol = symbol, !.owner = owner,
                        !.out = "raised", !.lines = lines]
    ELSE [PlIdle EXCEPT !.pc = "rate", !.symbol = symbol, !.frame = frame,
                        !.owner = owner, !.rateCalls = 1, !.lines = lines]

\* A conversion with the fallback rate instead of the fetched one
PlotRestDefaultRate(p, r, render) ==
    IF r.raised THEN [p EXCEPT !.pc = "done", !.out = "raised"]
    ELSE LET drawn == Append(p.lines,
                             Line(p.symbol, Convert(p.frame, FNum(DefaultRate))))
         IN  [p EXCEPT !.pc = "done",
                       !.rate = r.rate,
                       !.source = r.source,
                       !.out = IF render = "ok" THEN "returned" ELSE "raised",
                       !.lines = IF render = "raise_early" THEN p.lines ELSE drawn]

\* The rest of plot_stock_data once the rate fetcher has returned r: the
\* conversion and the drawing, which may raise before or after the lines
\* are on the axes.
PlotRest(p, r, render) ==
    IF r.raised THEN [p EXCEPT !.pc = "done", !.out = "raised"]
    ELSE LET drawn == Append(p.lines, Line(p.symbol, Convert(p.frame, r.rate)))
         IN  [p EXCEPT !.pc = "done",
                       !.rate = r.rate,
                       !.source = r.source,
                       !.out = IF render = "ok" THEN "returned" ELSE "raised",
                       !.lines = IF render = "raise_early" THEN p.lines ELSE drawn]

\* ------------------------------------------------------------------------
\* The library client: direct calls of tracker's functions
\* ------------------------------------------------------------------------
LibSymbols == { <<>>, <<" ">>, <<"A", "B">> }

MainFree == rf["main"].pc \in {"idle", "done"} /\ pl.pc \in {"idle", "done"}

\* tracker.get_usd_to_npr_rate()
LibRate ==
    /\ program = "lib"
    /\ calls < MaxCalls
    /\ MainFree
    /\ calls' = calls + 1
    /\ rf' = [rf EXCEPT !["main"] = RfEnter(cacheFile, 0)]
    /\ pl' = PlIdle
    /\ UNCHANGED <<symbolsFile, symbols, inv>>
    /\ UNCHANGED <<program, cacheFile, csvFile, liveRates, progWrote, lib, appVars>>

\* main.load_symbols()
LibLoadSymbols ==
    /\ program = "lib"
    /\ calls < MaxCalls
    /\ MainFree
    /\ symbols' = LoadSymbols(symbolsFile)
    /\ calls' = calls + 1
    /\ UNCHANGED <<symbolsFile, inv, program, cacheFile, csvFile, rf, pl, liveRates,
                   progWrote, lib, appVars>>

\* tracker.fetch_stock_data(symbol); lib keeps what the provider answered if
\* it was asked, and whether the CSV write worked if it was tried
LibFetch ==
    /\ program = "lib"
    /\ calls < MaxCalls
    /\ MainFree
    /\ \E symbol \in LibSymbols, hist \in HistoryOutcomes, csvOk \in BOOLEAN :
          LET res == FetchStockData(symbol, hist, csvOk, csvFile)
          IN  /\ lib' = [symbol |-> symbol,
                          hist |-> IF res.contacted THEN hist ELSE Hist("none", <<>>),
                          csvOk |-> res.csvTried /\ csvOk,
                          res |-> res]
              /\ csvFile' = res.csv
    /\ calls' = calls + 1
    /\ rf' = [rf EXCEPT !["main"] = RfIdle]
    /\ pl' = PlIdle
    /\ UNCHANGED <<symbolsFile, symbols, inv>>
    /\ UNCHANGED <<program, cacheFile, liveRates, progWrote, appVars>>

\* tracker.plot_stock_data(data, symbol), on new axes or on the axes the
\* previous call returned
LibPlot ==
    /\ program = "lib"
    /\ calls < MaxCalls
    /\ MainFree
    /\ \E frame \in Frames \cup {<<>>}, reuse \in BOOLEAN :
          LET p == PlotEnter(frame, <<"A", "B">>, 0,
                             IF reuse /\ pl.out = "returned" THEN pl.lines ELSE <<>>)
          IN  /\ pl' = p
              /\ rf' = [rf EXCEPT !["main"] =
                          IF p.pc = "rate" THEN RfEnter(cacheFile, 0) ELSE RfIdle]
    /\ calls' = calls + 1
    /\ UNCHANGED <<symbolsFile, symbols, inv>>
    /\ UNCHANGED <<program, cacheFile, csvFile, liveRates, progWrote, lib, appVars>>

\* plot_stock_data continues when get_usd_to_npr_rate has returned
PlotReturn ==
    /\ pl.pc = "rate"
    /\ rf["main"].pc = "done"
    /\ \E render \in RenderOutcomes : pl' = PlotRest(pl, rf["main"], render)
    /\ rf' = [rf EXCEPT !["main"] = RfIdle]
    /\ plot_ax' = IF pl.owner # 0 /\ plot_ax.set THEN [plot_ax EXCEPT !.lines = pl'.lines]
                  ELSE plot_ax
    /\ UNCHANGED <<symbolsFile, symbols, inv>>
    /\ UNCHANGED <<program, cacheFile, csvFile, liveRates, progWrote, calls, lib,
                   btn, status, req, afterQ, ui, canvas, clicks>>

\* ------------------------------------------------------------------------
\* The Tk application
\* ------------------------------------------------------------------------
\* What the user may have typed or selected in the combobox
RawSymbols == { <<>>, <<" ", " ">>, <<"a", "b", " ">>, <<"A", "B">> }

Status(kind, symbol, n, rate, source) ==
    [kind |-> kind, symbol |-> symbol, n |-> n, rate |-> rate, source |-> source]

\* rateIo: a rate-provider GET or a cache read or write was made for the request
ReqIdle == [st |-> "unused", symbol |-> <<>>, res |-> NoResult, rateIo |-> FALSE]

\* A symbol taken from the combobox without trimming
SymbolNoStrip(raw) == Upper(raw)

\* symbol = self.symbol_var.get().strip().upper()
Symbol(raw) == Upper(Strip(raw))

Callback(fn, r, symbol, frame, err) ==
    [fn |-> fn, r |-> r, symbol |-> symbol, frame |-> frame, err |-> err]

\* on_fetch_clicked with a blank symbol: the error dialog, nothing else
ClickBlank ==
    /\ program = "app"
    /\ ui.pc = "loop"
    /\ btn = "normal"
    /\ clicks < MaxClicks
    /\ \E raw \in RawSymbols : Symbol(raw) = <<>>
    /\ clicks' = clicks + 1
    /\ ui' = [pc |-> "dialog", r |-> 0]
    /\ UNCHANGED <<symbolsFile, symbols, inv>>
    /\ UNCHANGED <<program, cacheFile, csvFile, rf, pl, liveRates, progWrote, calls,
                   lib, btn, status, req, afterQ, plot_ax, canvas>>

\* A click handler that starts the worker and leaves the button enabled
ClickFetchNoDisable ==
    /\ program = "app"
    /\ ui.pc = "loop"
    /\ btn = "normal"
    /\ clicks < MaxClicks
    /\ \E raw \in RawSymbols, r \in Requests :
          LET symbol == Symbol(raw)
          IN  /\ symbol # <<>>
              /\ req[r].st = "unused"
              /\ \A q \in 1..(r - 1) : req[q].st # "unused"
              /\ status' = Status("Fetching", symbol, 0, FNan, "none")
              /\ req' = [req EXCEPT ![r] = [ReqIdle EXCEPT !.st = "running",
                                                          !.symbol = symbol]]
    /\ clicks' = clicks + 1
    /\ UNCHANGED <<symbolsFile, symbols, inv>>
    /\ UNCHANGED <<program, cacheFile, csvFile, rf, pl, liveRates, progWrote, calls,
                   lib, btn, afterQ, ui, plot_ax, canvas>>

\* on_fetch_clicked with a symbol: disable the button, start the worker
ClickFetch ==
    /\ program = "app"
    /\ ui.pc = "loop"
    /\ btn = "normal"
    /\ clicks < MaxClicks
    /\ \E raw \in RawSymbols, r \in Requests :
          LET symbol == Symbol(raw)
          IN  /\ symbol # <<>>
              /\ req[r].st = "unused"
              /\ \A q \in 1..(r - 1) : req[q].st # "unused"
              /\ btn' = "disabled"
              /\ status' = Status("Fetching", symbol, 0, FNan, "none")
              /\ req' = [req EXCEPT ![r] = [ReqIdle EXCEPT !.st = "running",
                                                          !.symbol = symbol]]
    /\ clicks' = clicks + 1
    /\ UNCHANGED <<symbolsFile, symbols, inv>>
    /\ UNCHANGED <<program, cacheFile, csvFile, rf, pl, liveRates, progWrote, calls,
                   lib, afterQ, ui, plot_ax, canvas>>

\* _fetch_thread: fetch_stock_data, then post the success or error callback
FetchThread(r) ==
    /\ req[r].st = "running"
    /\ \E hist \in AppHistoryOutcomes, csvOk \in BOOLEAN :
          LET res == FetchStockData(req[r].symbol, hist, csvOk, csvFile)
          IN  /\ csvFile' = res.csv
              /\ req' = [req EXCEPT ![r] = [@ EXCEPT !.st = "posted", !.res = res]]
              /\ afterQ' = Append(afterQ,
                                  IF res.out = "returned"
                                  THEN Callback("success", r, req[r].symbol, res.frame, "none")
                                  ELSE Callback("error", r, req[r].symbol, <<>>, res.err))
    /\ UNCHANGED <<symbolsFile, symbols, inv>>
    /\ UNCHANGED <<program, cacheFile, rf, pl, liveRates, progWrote, calls, lib,
                   btn, status, ui, plot_ax, canvas, clicks>>

\* _on_fetch_success up to its call of plot_stock_data
OnFetchSuccess ==
    /\ ui.pc = "loop"
    /\ afterQ # <<>>
    /\ Head(afterQ).fn = "success"
    /\ LET cb == Head(afterQ)
           p == PlotEnter(cb.frame, cb.symbol, cb.r, <<>>)
       IN  /\ status' = Status("Fetched", cb.symbol, Len(cb.frame), FNan, "none")
           /\ btn' = "normal"
           /\ plot_ax' = [plot_ax EXCEPT !.lines = <<>>]
           /\ pl' = p
           /\ rf' = [rf EXCEPT !["main"] =
                       IF p.pc = "rate" THEN RfEnter(cacheFile, cb.r) ELSE RfIdle]
           /\ ui' = [pc |-> "plot", r |-> cb.r]
           /\ req' = [req EXCEPT ![cb.r].st = "handling"]
    /\ afterQ' = Tail(afterQ)
    /\ UNCHANGED <<symbolsFile, symbols, inv>>
    /\ UNCHANGED <<program, cacheFile, csvFile, liveRates, progWrote, calls, lib,
                   canvas, clicks>>

\* _on_fetch_success after plot_stock_data: embed or update the canvas (its
\* draw() may raise), keep the axes and show the rate in the status bar; on
\* an exception, the dialog
AfterPlot ==
    /\ ui.pc = "plot"
    /\ pl.pc = "done"
    /\ \E draw \in {"ok", "raise"} :
          IF pl.out = "raised"
          THEN /\ ui' = [ui EXCEPT !.pc = "dialog"]
               /\ UNCHANGED <<canvas, plot_ax, status>>
          ELSE /\ canvas' = [set |-> TRUE,
                               lines |-> IF draw = "ok" THEN pl.lines ELSE canvas.lines]
               /\ IF draw = "ok"
                  THEN /\ plot_ax' = [set |-> TRUE, lines |-> pl.lines]
                       /\ status' = Status("Plot", pl.symbol, 0, pl.rate, pl.source)
                       /\ ui' = [pc |-> "loop", r |-> 0]
                  ELSE /\ ui' = [ui EXCEPT !.pc = "dialog"]
                       /\ UNCHANGED <<plot_ax, status>>
    /\ req' = IF ui'.pc = "loop" THEN [req EXCEPT ![ui.r] = [ReqIdle EXCEPT !.st = "handled"]]
              ELSE req
    /\ pl' = PlIdle
    /\ UNCHANGED <<symbolsFile, symbols, inv>>
    /\ UNCHANGED <<program, cacheFile, csvFile, rf, liveRates, progWrote, calls, lib,
                   btn, afterQ, clicks>>

\* An error callback that leaves the button as it is
OnFetchErrorKeepsButton ==
    /\ ui.pc = "loop"
    /\ afterQ # <<>>
    /\ Head(afterQ).fn = "error"
    /\ status' = Status("Error", <<>>, 0, FNan, "none")
    /\ ui' = [pc |-> "dialog", r |-> Head(afterQ).r]
    /\ req' = [req EXCEPT ![Head(afterQ).r].st = "handling"]
    /\ afterQ' = Tail(afterQ)
    /\ UNCHANGED <<symbolsFile, symbols, inv>>
    /\ UNCHANGED <<program, cacheFile, csvFile, rf, pl, liveRates, progWrote, calls,
                   lib, btn, plot_ax, canvas, clicks>>

\* _on_fetch_error
OnFetchError ==
    /\ ui.pc = "loop"
    /\ afterQ # <<>>
    /\ Head(afterQ).fn = "error"
    /\ btn' = "normal"
    /\ status' = Status("Error", <<>>, 0, FNan, "none")
    /\ ui' = [pc |-> "dialog", r |-> Head(afterQ).r]
    /\ req' = [req EXCEPT ![Head(afterQ).r].st = "handling"]
    /\ afterQ' = Tail(afterQ)
    /\ UNCHANGED <<symbolsFile, symbols, inv>>
    /\ UNCHANGED <<program, cacheFile, csvFile, rf, pl, liveRates, progWrote, calls,
                   lib, plot_ax, canvas, clicks>>

\* The user closes the messagebox and the handler returns
DismissDialog ==
    /\ ui.pc = "dialog"
    /\ ui' = [pc |-> "loop", r |-> 0]
    /\ req' = IF ui.r = 0 THEN req
              ELSE [req EXCEPT ![ui.r] = [ReqIdle EXCEPT !.st = "handled"]]
    /\ UNCHANGED <<symbolsFile, symbols, inv>>
    /\ UNCHANGED <<program, cacheFile, csvFile, rf, pl, liveRates, progWrote, calls,
                   lib, btn, status, afterQ, plot_ax, canvas, clicks>>

\* ------------------------------------------------------------------------
\* Specification
\* ------------------------------------------------------------------------
\* The state of everything but Stock_Symbols.txt
InitPipeline ==
    /\ program \in {"app", "lib"}
    /\ cacheFile \in IF program = "app" THEN AppCacheFiles ELSE InitialCacheFiles
    /\ csvFile = NoCsv
    /\ rf = [i \in Invokers |-> RfIdle]
    /\ pl = PlIdle
    /\ liveRates = {}
    /\ progWrote = FALSE
    /\ calls = 0
    /\ lib = [symbol |-> <<>>, hist |-> Hist("none", <<>>), csvOk |-> FALSE, res |-> NoResult]
    /\ btn = "normal"
    /\ status = Status("Idle", <<>>, 0, FNan, "none")
    /\ req = [r \in Requests |-> ReqIdle]
    /\ afterQ = <<>>
    /\ ui = [pc |-> "loop", r |-> 0]
    /\ plot_ax = [set |-> FALSE, lines |-> <<>>]
    /\ canvas = [set |-> FALSE, lines |-> <<>>]
    /\ clicks = 0
    /\ inv = [i \in Processes |-> InvIdle]

\* StockTrackerApp.__init__ has loaded the symbols for its combobox; a
\* library client has not called load_symbols
Init ==
    /\ InitPipeline
    /\ symbolsFile = NoFile
    /\ symbols = IF program = "app" THEN LoadSymbols(symbolsFile) ELSE NotLoaded

Next ==
    \/ LibFetch
    \/ LibPlot
    \/ \E i \in Invokers : ProviderStep(i)
    \/ \E i \in Invokers : CacheStep(i)
    \/ PlotReturn
    \/ ClickBlank
    \/ ClickFetch
    \/ \E r \in Requests : FetchThread(r)
    \/ OnFetchSuccess
    \/ AfterPlot
    \/ OnFetchError
    \/ DismissDialog

Spec == Init /\ [][Next]_vars

\* Direct calls of get_usd_to_npr_rate alone
InitRate == Init /\ program = "lib"

NextRate ==
    \/ LibRate
    \/ \E i \in Invokers : ProviderStep(i)
    \/ \E i \in Invokers : CacheStep(i)

SpecRate == InitRate /\ [][NextRate]_vars

\* The Tk application alone, with the scheduling it relies on: the history
\* fetch of a worker returns or raises, and the Tk main loop runs the
\* callbacks posted with after(0, ...) when it is idle
InitApp == Init /\ program = "app"

NextApp ==
    \/ ClickBlank
    \/ ClickFetch
    \/ \E r \in Requests : FetchThread(r)
    \/ OnFetchSuccess
    \/ \E i \in Invokers : ProviderStep(i)
    \/ \E i \in Invokers : CacheStep(i)
    \/ PlotReturn
    \/ AfterPlot
    \/ OnFetchError
    \/ DismissDialog

Fairness ==
    /\ \A r \in Requests : WF_vars(FetchThread(r))
    /\ WF_vars(OnFetchSuccess)
    /\ WF_vars(OnFetchError)

SpecLive == InitApp /\ [][NextApp]_vars /\ Fairness

\* Two processes that call get_usd_to_npr_rate in the same directory
InitShared == Init /\ program = "lib" /\ cacheFile \in AppCacheFiles

NextShared ==
    \E i \in Processes :
        \/ SharedCall(i)
        \/ SharedGet(i)
        \/ SharedOpen(i)
        \/ SharedWrite(i)
        \/ SharedReturn(i)
        \/ SharedCache(i)

SpecShared == InitShared /\ [][NextShared]_vars

\* Direct calls of load_symbols alone
InitLoad ==
    /\ InitPipeline
    /\ program = "lib"
    /\ cacheFile = NoFile
    /\ symbolsFile \in SymbolFiles
    /\ symbols = NotLoaded

NextLoad == LibLoadSymbols

SpecLoad == InitLoad /\ [][NextLoad]_vars

\* ------------------------------------------------------------------------
\* Properties of get_usd_to_npr_rate (under SpecRate)
\* ------------------------------------------------------------------------
Sources == {"live", "cache", "default"}

Returned(r) == r.pc = "done" /\ ~r.raised

\* The float a file's text parses to, if the text of the file holds one
FileRate(file) == ParseFloat(file.txt)

\* The file can be read as a number
Readable(file) ==
    file.exists /\ file.readable /\ Strip(file.txt) # <<>> /\ FileRate(file).ok

\* C1: the providers are queried in the configured order, each at most once;
\* provider k+1 is queried only after provider k failed in this call; after a
\* provider's success no later provider is queried and the cache file is not
\* read.
C1_CascadeInOrder ==
    \A i \in Invokers :
        LET r == rf[i]
        IN  /\ Len(r.queried) <= NumProviders
            /\ \A j \in 1..Len(r.queried) : r.queried[j] = j
            /\ r.pc = "get" => r.k = Len(r.queried) + 1 /\ r.source = "none"
            /\ \A j \in 1..Len(r.obs) :
                  r.obs[j] = "ok" =>
                      /\ j = Len(r.obs)
                      /\ r.pc = "done"
                      /\ r.source = "live"
                      /\ r.cacheReads = 0
            /\ r.source = "live" => r.pc = "done" /\ r.cacheReads = 0
            /\ r.cacheReads > 0 => r.cacheReads = 1 /\ r.queried = <<1, 2, 3>>

C1_Witness ==
    \E i \in Invokers :
        /\ Returned(rf[i])
        /\ rf[i].source = "live"
        /\ rf[i].queried = <<1, 2>>
        /\ rf[i].obs = <<"bad", "ok">>

\* C2: the source is live, cache or default; live only if a provider succeeded
\* in this call (HTTP 2xx, parseable body, positive finite number at the
\* documented path); cache only if all three providers failed and the cache
\* file was readable; default, with 140.0, only if all three failed and the
\* cache file was not readable.
C2_SourceJustified ==
    \A i \in Invokers :
        LET r == rf[i]
            allFailed == Len(r.obs) = NumProviders /\ \A j \in 1..Len(r.obs) : r.obs[j] # "ok"
        IN  Returned(r) =>
               /\ r.source \in Sources
               /\ r.source = "live" => \E j \in 1..Len(r.obs) : r.obs[j] = "ok"
               /\ r.source = "cache" => allFailed /\ Readable(r.fileAtCall)
               /\ r.source = "default" =>
                     allFailed /\ ~Readable(r.fileAtCall) /\ r.rate = FNum(DefaultRate)

\* C3: the call never raises to its caller; whatever the providers answer,
\* whatever the state of the cache file and whether or not the cache write
\* fails, it ends with a rate and one of the three sources.
C3_NeverRaises ==
    \A i \in Invokers :
        /\ ~rf[i].raised
        /\ rf[i].pc = "done" => rf[i].source \in Sources

C3_Witness ==
    \E i \in Invokers :
        /\ Returned(rf[i])
        /\ rf[i].source = "default"
        /\ rf[i].fileAtCall.exists
        /\ ~rf[i].fileAtCall.readable

\* C4 as stated: after a call that returns live, the cache file parses to the
\* returned rate.
C4_LiveIsInFile ==
    \A i \in Invokers :
        Returned(rf[i]) /\ rf[i].source = "live" =>
            cacheFile.exists /\ FileRate(cacheFile) = [ok |-> TRUE, f |-> rf[i].rate]

\* C4 amended: after a call that returns live and whose cache write did not
\* fail, the cache file parses to the returned rate; a call that returns live
\* attempts exactly one write, of str(rate).
C4_LiveIsInFileIfWritten ==
    \A i \in Invokers :
        Returned(rf[i]) /\ rf[i].source = "live" =>
            /\ Len(rf[i].writes) = 1
            /\ rf[i].writes[1].ok =>
                  cacheFile.exists /\ FileRate(cacheFile) = [ok |-> TRUE, f |-> rf[i].rate]

C4_Witness ==
    \E i \in Invokers :
        /\ Returned(rf[i])
        /\ rf[i].source = "live"
        /\ rf[i].rate = FNum(13250)
        /\ rf[i].writes[1].ok
        /\ rf[i].fileAtCall.txt = <<"1", "2", "9", ".", "2", "5">>

\* C5: the returned rate is strictly positive, whatever the source.
C5_RatePositive ==
    \A i \in Invokers : Returned(rf[i]) => Positive(rf[i].rate)

\* C6: a provider that answers 2xx and parseable JSON with a zero or negative
\* value (number or numeric text) at the documented path has failed: its
\* value is not written to the cache and not returned as live.
C6_NonPositiveFails ==
    \A i \in Invokers :
        LET r == rf[i]
        IN  Len(r.obs) > 0 /\ r.obs[Len(r.obs)] = "nonpos" =>
                r.source # "live" /\ r.writes = <<>>

\* The cache file holds a parseable positive decimal
CacheUsable(file) ==
    Readable(file) /\ Positive(FileRate(file).f)

\* C7: when all three providers fail, the cached rate is used only if the
\* file exists and holds a parseable positive decimal; otherwise the result
\* is (140.0, default).
C7_CacheOnlyIfPositive ==
    \A i \in Invokers :
        LET r == rf[i]
        IN  Returned(r) /\ r.cacheReads = 1 =>
                IF CacheUsable(r.fileAtCall)
                THEN r.source = "cache" /\ r.rate = FileRate(r.fileAtCall).f
                ELSE r.source = "default" /\ r.rate = FNum(DefaultRate)

InFlight(r) == req[r].st \in {"running", "posted", "handling"}

HistoryOk(r) == req[r].res.out = "returned" /\ req[r].res.frame # <<>>

\* C9: within a request the rate fetcher runs only after the history fetch of
\* that request has returned a non-empty frame; a request whose history fetch
\* failed makes no rate-provider GET, cache read or cache write; and
\* plot_stock_data given an empty frame raises without calling the fetcher.
C9_RateAfterHistory ==
    /\ \A i \in Invokers :
          rf[i].pc # "idle" /\ rf[i].owner # 0 =>
              HistoryOk(rf[i].owner) /\ req[rf[i].owner].st = "handling"
    /\ \A r \in Requests :
          /\ req[r].rateIo => HistoryOk(r)
          /\ req[r].st \in {"running", "posted"} => ~req[r].rateIo
    /\ pl.pc # "idle" /\ pl.frame = <<>> =>
          /\ pl.out = "raised"
          /\ pl.rateCalls = 0
          /\ \A i \in Invokers : rf[i].pc = "idle"

C9_Witness ==
    \E r \in Requests :
        /\ req[r].st = "handling"
        /\ req[r].res.out = "raised"
        /\ req[r].res.contacted
        /\ ~req[r].rateIo
        /\ ui.pc = "dialog"
        /\ status.kind = "Error"

\* C10: fetch_stock_data given the empty symbol raises the invalid-symbol
\* error without contacting the market-data provider; a click with a symbol
\* that is blank after trimming starts no worker, and opens the error dialog
\* without touching the button, the status or the callback queue.
C10_NoWorkerForBlank ==
    /\ lib.res.out # "none" /\ lib.symbol = <<>> =>
          lib.res.out = "raised" /\ lib.res.err = "invalid" /\ ~lib.res.contacted
    /\ \A r \in Requests :
          InFlight(r) => Strip(req[r].symbol) # <<>> /\ req[r].res.err # "invalid"

C10_BlankClickChangesNothing ==
    (ui.pc = "loop" /\ ui'.pc = "dialog" /\ ui'.r = 0) =>
        (btn' = btn /\ status' = status /\ req' = req /\ afterQ' = afterQ)

C10_EmptySymbolRejected ==
    []C10_NoWorkerForBlank /\ [][C10_BlankClickChangesNothing]_vars

C10_Witness ==
    /\ program = "app"
    /\ ui.pc = "dialog"
    /\ ui.r = 0
    /\ clicks = 1
    /\ btn = "normal"
    /\ status.kind = "Idle"

\* ------------------------------------------------------------------------
\* Properties of the threads (under Spec)
\* ------------------------------------------------------------------------
\* The Tk main thread is inside a callback of request r
UiHandles(r) == ui.r = r /\ ui.pc \in {"plot", "dialog"}

\* C11: the blocking work of a request (the history fetch, the rate
\* fetcher's GETs and its cache I/O) runs on the request's worker thread: the
\* Tk main thread is never inside get_usd_to_npr_rate, and rate I/O is made
\* for a request only while its worker is running.
C11_RateWorkOnWorker ==
    program = "app" =>
        /\ rf["main"].pc \notin {"get", "cache"}
        /\ \A r \in Requests : UiHandles(r) => ~req[r].rateIo

\* The worker of request r is running or its callback is queued
Pending(r) == req[r].st \in {"running", "posted"}

OneInFlight == \A r, q \in Requests : InFlight(r) /\ InFlight(q) => r = q

\* The request in flight is the newest one, and every queued callback
\* belongs to a request that is waiting for it
NewestWins ==
    /\ \A r \in Requests :
          InFlight(r) => \A q \in Requests : q > r => req[q].st = "unused"
    /\ \A j \in 1..Len(afterQ) : req[afterQ[j].r].st = "posted"

\* C12 as stated: the button is disabled as long as a request is in flight,
\* from the click until its history fetch, rate fetch and rendering or error
\* report are over; at most one request is in flight and no callback of an
\* older request runs after a newer one.
C12_DisabledWhileInFlight ==
    /\ \A r \in Requests : InFlight(r) => btn = "disabled"
    /\ OneInFlight
    /\ NewestWins

\* C12 amended: the button is disabled exactly from the accepted click until
\* the request's callback starts on the Tk main thread, which re-enables it
\* before the rate fetch and the rendering; at most one request is in flight
\* and no callback of an older request runs after a newer one.
C12_DisabledUntilCallback ==
    /\ btn = "disabled" <=> \E r \in Requests : Pending(r)
    /\ \A r \in Requests : UiHandles(r) => req[r].st = "handling" /\ btn = "normal"
    /\ OneInFlight
    /\ NewestWins

C12_Witness ==
    /\ ui.pc = "plot"
    /\ ui.r = 2
    /\ rf["main"].pc = "get"
    /\ btn = "normal"
    /\ req[1].st = "handled"
    /\ plot_ax.set

\* ------------------------------------------------------------------------
\* Properties of plot_stock_data and fetch_stock_data (under Spec)
\* ------------------------------------------------------------------------
\* The price line that a call of plot_stock_data draws
OwnLine(p) == Line(p.symbol, Convert(p.frame, p.rate))

\* C13: plot_stock_data clears the axes it is given: when it returns, the
\* axes hold exactly one price line, the one of this call, whatever earlier
\* calls drew on them; and the axes embedded in the window show only the
\* series of the most recent successful request.
C13_TargetHoldsOneLine ==
    /\ pl.pc = "done" /\ pl.out = "returned" => pl.lines = <<OwnLine(pl)>>
    /\ status.kind = "Plot" => Len(canvas.lines) = 1 /\ plot_ax.lines = canvas.lines
    /\ plot_ax.set => Len(plot_ax.lines) <= 1

\* close * rate for each close of the frame, in the frame's order
Product(frame, rate) ==
    [i \in 1..Len(frame) |-> IF rate.nan THEN FNan ELSE FNum(frame[i] * rate.n)]

C14_SeriesOfReturn ==
    /\ pl.pc = "done" /\ pl.out = "returned" =>
          /\ pl.rateCalls = 1
          /\ pl.frame # <<>>
          /\ pl.lines # <<>>
          /\ pl.source \in Sources
          /\ LET series == pl.lines[Len(pl.lines)].series
             IN  /\ Len(series) = Len(pl.frame)
                 /\ series = Product(pl.frame, pl.rate)
    /\ status.kind = "Plot" =>
          /\ canvas.lines # <<>>
          /\ status.source \in Sources
          /\ \E frame \in Frames :
                canvas.lines[Len(canvas.lines)].series = Product(frame, status.rate)

C14_RateOfReturn ==
    /\ (pl.pc = "rate" /\ pl'.pc = "done" /\ pl'.out = "returned") =>
          (pl'.rate = rf["main"].rate /\ pl'.source = rf["main"].source)
    /\ (ui.pc = "plot" /\ ui'.pc = "loop") =>
          (status' = Status("Plot", pl.symbol, 0, pl.rate, pl.source))

NoData(hist) == hist.kind \in {"none", "empty"} \/ (hist.kind = "frame" /\ hist.frame = <<>>)

C15_ResultOfFetch ==
    /\ lib.res.out # "none" /\ lib.symbol # <<>> =>
          /\ lib.res.out = "returned" <=> (lib.hist.kind = "frame" /\ lib.hist.frame # <<>>)
          /\ lib.res.out = "returned" =>
                /\ lib.res.frame = lib.hist.frame
                /\ lib.res.csvTried
                /\ lib.csvOk => csvFile = [exists |-> TRUE, frame |-> lib.hist.frame]
          /\ NoData(lib.hist) =>
                lib.res.out = "raised" /\ lib.res.err = "nodata" /\ ~lib.res.csvTried
    /\ \A r \in Requests :
          /\ req[r].res.out = "returned" => req[r].res.frame # <<>> /\ req[r].res.csvTried
          /\ req[r].res.out = "raised" => ~req[r].res.csvTried

C15_CsvWrittenOnReturn ==
    /\ csvFile' # csvFile =>
          \/ /\ calls' # calls
             /\ lib'.res.out = "returned"
             /\ csvFile' = [exists |-> TRUE, frame |-> lib'.res.frame]
          \/ \E r \in Requests :
                /\ req[r].st = "running"
                /\ req'[r].res.out = "returned"
                /\ csvFile' = [exists |-> TRUE, frame |-> req'[r].res.frame]
    /\ (calls' # calls /\ lib'.res.out = "returned" /\ ~lib'.csvOk) => csvFile' = csvFile

\* C15: fetch_stock_data returns a frame exactly when the provider gave a
\* non-empty one, and then the frame the provider gave; a missing or empty
\* frame raises the no-data error and stock_data.csv is not written; after a
\* non-empty fetch the CSV write is attempted, and when it fails the same
\* frame is returned, nothing is raised and the file stays as it was.
C15_FrameOnlyIfNonEmpty ==
    []C15_ResultOfFetch /\ [][C15_CsvWrittenOnReturn]_vars

C15_Witness ==
    /\ lib.res.out = "returned"
    /\ lib.res.frame = <<50>>
    /\ ~lib.csvOk
    /\ lib.res.csvTried
    /\ csvFile = [exists |-> TRUE, frame |-> <<100, 101, 99>>]

\* ------------------------------------------------------------------------
\* Properties of load_symbols (under SpecLoad)
\* ------------------------------------------------------------------------
Elements(list) == { list[j] : j \in 1..Len(list) }

\* **s** stands somewhere in txt
Starred(txt, s) ==
    \E i \in 1..Len(txt) :
        /\ Stars(txt, i)
        /\ SubSeq(txt, i + 2, i + 1 + Len(s)) = s
        /\ Stars(txt, i + 2 + Len(s))

\* A text that holds the matches as **m** one after the other
RECURSIVE Markdown(_)
Markdown(matches) ==
    IF matches = <<>> THEN <<>>
    ELSE <<"*", "*">> \o Head(matches) \o <<"*", "*", " ">> \o Markdown(Tail(matches))

Reverse(q) == [j \in 1..Len(q) |-> q[Len(q) + 1 - j]]

\* The list is the sorted set of the matches of the file, or of the fallback
ListOfFile(list, file) ==
    LET found == IF file.exists /\ file.readable THEN FindAll(file.txt, 1) ELSE <<>>
    IN  /\ list # <<>>
        /\ \A j \in 1..(Len(list) - 1) : StrLess(list[j], list[j + 1])
        /\ \A j \in 1..Len(list) :
              /\ list[j] # <<>>
              /\ \A c \in 1..Len(list[j]) : IsSymbolChar(list[j][c])
        /\ IF found # <<>>
           THEN /\ Elements(list) = Elements(found)
                /\ \A s \in Elements(list) : Starred(file.txt, s)
                /\ LoadSymbols(File(TRUE, TRUE, Markdown(Reverse(found) \o found))).list = list
           ELSE list = << <<"A", "A", "P", "L">>, <<"A", "M", "Z", "N">>,
                          <<"G", "O", "O", "G", "L">>, <<"M", "S", "F", "T">>,
                          <<"T", "S", "L", "A">> >>

\* C16: load_symbols always returns a non-empty list without duplicates in
\* ascending order: the set of the **SYMBOL** matches of the file when it
\* exists and has a match, the fallback when it is missing or has no match,
\* whatever the order and the number of occurrences of the matches.
C16_SortedSetOrFallback ==
    symbols.out # "none" =>
        symbols.out = "returned" /\ ListOfFile(symbols.list, symbolsFile)

\* ------------------------------------------------------------------------
\* Progress of a request (under SpecLive)
\* ------------------------------------------------------------------------
\* The callbacks of request r that wait in the queue
Posted(r) == { j \in 1..Len(afterQ) : afterQ[j].r = r }

C17_OneCallback ==
    \A r \in Requests :
        /\ Cardinality(Posted(r)) = IF req[r].st = "posted" THEN 1 ELSE 0
        /\ \A j \in Posted(r) :
              afterQ[j].fn = IF req[r].res.out = "returned" THEN "success" ELSE "error"
        /\ req[r].st = "handling" => btn = "normal"

\* C17: every accepted click leads to the button being enabled again, given
\* that the history fetch returns or raises: the worker posts exactly one
\* callback, the success or the error one, each of which enables the button,
\* also when the plotting inside the success callback fails.
C17_ClickLeadsToEnabled ==
    /\ []C17_OneCallback
    /\ \A r \in Requests : (req[r].st = "running") ~> (btn = "normal" /\ ~Pending(r))

C17_Witness ==
    /\ ui.pc = "dialog"
    /\ ui.r = 2
    /\ req[2].st = "handling"
    /\ req[2].res.out = "returned"
    /\ status.kind = "Fetched"
    /\ btn = "normal"

\* ------------------------------------------------------------------------
\* Properties of the shared cache file (under SpecShared)
\* ------------------------------------------------------------------------
\* Every change of the file puts there the rate that the writing call
\* returns as live
C18_FileHoldsLiveRate ==
    cacheFile' # cacheFile =>
        \E i \in Processes :
            /\ inv'[i].pc \in {"return", "done"}
            /\ inv[i].pc \in {"open", "write"}
            /\ cacheFile'.exists
            /\ cacheFile'.txt = FormatFloat(inv'[i].rate)

\* A call that returns cache returns what the file held at some moment of
\* the call
C18_CacheValueWasInFile ==
    \A i \in Processes :
        inv[i].pc = "done" /\ inv[i].source = "cache" =>
            \E file \in inv[i].seen :
                file.exists /\ FileRate(file) = [ok |-> TRUE, f |-> inv[i].rate]

\* C18: when calls of get_usd_to_npr_rate interleave on last_npr_rate.txt
\* without locking, the last write wins: at every moment the file holds what
\* it held at first or the rate that some call returned as live, and a call
\* that returns cache returns what the file held at some moment of the call.
C18_LastWriteWins ==
    []C18_CacheValueWasInFile /\ [][C18_FileHoldsLiveRate]_vars

=============================================================================
